---- MODULE Spec2Model ----
(***************************************************************************)
(* Model of the PydanticAI research agent's email tools                    *)
(* (agents/email_agent.py) and of its command line (PRPs/examples/cli.py). *)
(*                                                                         *)
(* Text is modelled as a sequence of words: concatenation is \o, the empty *)
(* string is << >>, and a substring test for a keyword is a test for the   *)
(* word.  A Python exception is a record [cls, msg]; msg is str(e).        *)
(***************************************************************************)
EXTENDS Integers, Sequences, FiniteSets, TLC

\* ------------------------------------------------------------------ bounds
MaxToolCalls == 2   \* tool calls the agent runtime makes in one run
MaxInputs    == 2   \* lines the interactive loop reads

\* -------------------------------------------------------------------- text
\* str.lower() on one word
LowerWord(w) ==
    CASE w = "Refresh"     -> "refresh"
      [] w = "Credentials" -> "credentials"
      [] w = "EXIT"        -> "exit"
      [] w = "Q"           -> "q"
      [] w = "Help"        -> "help"
      [] OTHER             -> w

\* str.lower()
Lower(s) == [i \in 1..Len(s) |-> LowerWord(s[i])]

\* `keyword in text`
Contains(s, w) == \E i \in 1..Len(s) : s[i] = w

Blank == " "

\* str.strip(): drop the leading and the trailing blanks
RECURSIVE LStrip(_)
LStrip(s) == IF s # << >> /\ Head(s) = Blank THEN LStrip(Tail(s)) ELSE s

RECURSIVE RStrip(_)
RStrip(s) ==
    IF s # << >> /\ s[Len(s)] = Blank THEN RStrip(SubSeq(s, 1, Len(s) - 1)) ELSE s

Strip(s) == RStrip(LStrip(s))

\* -------------------------------------------------------------- exceptions
ExcClasses == {"FileNotFoundError", "Exception", "KeyboardInterrupt"}

\* Mutant: a handler that names one class too few.
IsExceptionNarrow(cls) == cls = "Exception"

\* `except Exception` matches the class; KeyboardInterrupt derives from
\* BaseException only and is not matched
IsException(cls) == cls \in {"FileNotFoundError", "Exception"}

\* str(e) of the exceptions the Gmail calls raise; it can be empty
ExcMsgs ==
    { << >>, <<"timeout">>, <<"Token", "Refresh", "failed">>,
      <<"bad", "Credentials">>, <<"credentials", "refresh">> }
Excs == [cls : ExcClasses, msg : ExcMsgs]

\* -------------------------------------------------- authenticate_gmail tool
SetupCommand == "python setup_gmail.py"

AuthSuccess ==
    [success |-> TRUE,
     message |-> <<"Gmail authenticated successfully">>,
     service_available |-> TRUE]

\* Mutant: the message of the token-refresh branch leaves the command out.
AuthFailureNoCommand(e) ==
    IF e.cls = "FileNotFoundError"
    THEN [success |-> FALSE,
          error |-> <<"Gmail OAuth2 not configured">>,
          message |-> <<"Run", SetupCommand, "to configure Gmail authentication">>,
          recoverable |-> TRUE,
          setup_command |-> SetupCommand]
    ELSE IF Contains(Lower(e.msg), "refresh")
    THEN [success |-> FALSE,
          error |-> <<"Token refresh failed:">> \o e.msg,
          message |-> <<"Gmail token has expired.", "to re-authenticate">>,
          recoverable |-> TRUE,
          setup_command |-> SetupCommand]
    ELSE IF Contains(Lower(e.msg), "credentials")
    THEN [success |-> FALSE,
          error |-> <<"Credentials error:">> \o e.msg,
          message |-> <<"Gmail credentials file is invalid. Run", SetupCommand, "to fix">>,
          recoverable |-> TRUE,
          setup_command |-> SetupCommand]
    ELSE [success |-> FALSE,
          error |-> e.msg,
          message |-> <<"Gmail authentication failed:">> \o e.msg,
          recoverable |-> FALSE]

\* Mutant: no clause of its own for FileNotFoundError.
AuthFailureNoFileClause(e) ==
    IF Contains(Lower(e.msg), "refresh")
    THEN [success |-> FALSE,
          error |-> <<"Token refresh failed:">> \o e.msg,
          message |-> <<"Gmail token has expired. Run", SetupCommand, "to re-authenticate">>,
          recoverable |-> TRUE,
          setup_command |-> SetupCommand]
    ELSE IF Contains(Lower(e.msg), "credentials")
    THEN [success |-> FALSE,
          error |-> <<"Credentials error:">> \o e.msg,
          message |-> <<"Gmail credentials file is invalid. Run", SetupCommand, "to fix">>,
          recoverable |-> TRUE,
          setup_command |-> SetupCommand]
    ELSE [success |-> FALSE,
          error |-> e.msg,
          message |-> <<"Gmail authentication failed:">> \o e.msg,
          recoverable |-> FALSE]

\* Mutant: the message is tested for "credentials" before "refresh".
AuthFailureCredentialsFirst(e) ==
    IF e.cls = "FileNotFoundError"
    THEN [success |-> FALSE,
          error |-> <<"Gmail OAuth2 not configured">>,
          message |-> <<"Run", SetupCommand, "to configure Gmail authentication">>,
          recoverable |-> TRUE,
          setup_command |-> SetupCommand]
    ELSE IF Contains(Lower(e.msg), "credentials")
    THEN [success |-> FALSE,
          error |-> <<"Credentials error:">> \o e.msg,
          message |-> <<"Gmail credentials file is invalid. Run", SetupCommand, "to fix">>,
          recoverable |-> TRUE,
          setup_command |-> SetupCommand]
    ELSE IF Contains(Lower(e.msg), "refresh")
    THEN [success |-> FALSE,
          error |-> <<"Token refresh failed:">> \o e.msg,
          message |-> <<"Gmail token has expired. Run", SetupCommand, "to re-authenticate">>,
          recoverable |-> TRUE,
          setup_command |-> SetupCommand]
    ELSE [success |-> FALSE,
          error |-> e.msg,
          message |-> <<"Gmail authentication failed:">> \o e.msg,
          recoverable |-> FALSE]

\* The except clauses of authenticate_gmail, for an exception they match.
AuthFailure(e) ==
    IF e.cls = "FileNotFoundError"
    THEN [success |-> FALSE,
          error |-> <<"Gmail OAuth2 not configured">>,
          message |-> <<"Run", SetupCommand, "to configure Gmail authentication">>,
          recoverable |-> TRUE,
          setup_command |-> SetupCommand]
    ELSE IF Contains(Lower(e.msg), "refresh")
    THEN [success |-> FALSE,
          error |-> <<"Token refresh failed:">> \o e.msg,
          message |-> <<"Gmail token has expired. Run", SetupCommand, "to re-authenticate">>,
          recoverable |-> TRUE,
          setup_command |-> SetupCommand]
    ELSE IF Contains(Lower(e.msg), "credentials")
    THEN [success |-> FALSE,
          error |-> <<"Credentials error:">> \o e.msg,
          message |-> <<"Gmail credentials file is invalid. Run", SetupCommand, "to fix">>,
          recoverable |-> TRUE,
          setup_command |-> SetupCommand]
    ELSE [success |-> FALSE,
          error |-> e.msg,
          message |-> <<"Gmail authentication failed:">> \o e.msg,
          recoverable |-> FALSE]

\* -------------------------------------------------- create_gmail_draft tool
\* Optional values: None is << >>, a value x is <<x>>.
None    == << >>
Some(x) == <<x>>

\* Arguments the runtime can pass: the signature asks for List[str] and str.
DraftArgs ==
    [to : {<< >>, <<"ann@example.com">>},
     subject : {<<"Findings">>},
     body : {<<"Dear Ann">>},
     cc : {None},
     bcc : {None}]

\* What tools.gmail_tools.create_gmail_draft hands back: a dictionary with the
\* keys the adapter reads, or one that lacks some of them.
DraftResults ==
    { [success |-> TRUE, draft_id |-> "r-1", message_id |-> "m-1"],
      [success |-> FALSE, error |-> <<"HttpError 401">>, message |-> <<"Invalid Credentials">>],
      [success |-> FALSE, error |-> <<"HttpError 500">>, message |-> << >>],
      [success |-> TRUE, draft_id |-> "r-1"],
      [success |-> TRUE],
      [success |-> FALSE, error |-> <<"HttpError 401">>],
      [success |-> FALSE] }

\* The constraints of models.email_models.EmailDraft
EmailDraftValid(a) == Len(a.to) >= 1 /\ Len(a.subject) >= 1 /\ Len(a.body) >= 1

KeyError(k) == [cls |-> "Exception", msg |-> <<k>>]

\* Mutant: the message leaves the command out.
DraftAuthFailureNoCommand(e) ==
    [success |-> FALSE,
     error |-> <<"Gmail authentication failed:">> \o e.msg,
     message |-> <<"Cannot create draft without Gmail authentication.">>,
     recoverable |-> TRUE]

\* except Exception of the authentication step (lines 127-133)
DraftAuthFailure(e) ==
    [success |-> FALSE,
     error |-> <<"Gmail authentication failed:">> \o e.msg,
     message |-> <<"Cannot create draft without Gmail authentication. Run",
                   SetupCommand, "first">>,
     recoverable |-> TRUE]

\* except Exception of the submission step (lines 162-168)
DraftUnexpected(e) ==
    [success |-> FALSE,
     error |-> e.msg,
     message |-> <<"Unexpected error creating Gmail draft:">> \o e.msg]

\* Lines 146-160, with the KeyError a missing key raises caught at line 162.
DraftOutcome(result) ==
    IF result.success
    THEN IF "draft_id" \notin DOMAIN result THEN DraftUnexpected(KeyError("'draft_id'"))
         ELSE IF "message_id" \notin DOMAIN result
         THEN DraftUnexpected(KeyError("'message_id'"))
         ELSE [success |-> TRUE,
               draft_id |-> result.draft_id,
               message_id |-> result.message_id,
               message |-> <<"Email draft created successfully in Gmail. Draft ID:",
                             result.draft_id>>]
    ELSE IF "error" \notin DOMAIN result THEN DraftUnexpected(KeyError("'error'"))
         ELSE IF "message" \notin DOMAIN result
         THEN DraftUnexpected(KeyError("'message'"))
         ELSE [success |-> FALSE,
               error |-> result.error,
               message |-> <<"Failed to create Gmail draft:">> \o result.message]

\* ----------------------------------------------- compose_email_content tool
\* str.title() on one word
TitleWord(w) ==
    CASE w = "john" -> "John"
      [] w = "doe"  -> "Doe"
      [] OTHER      -> w

Title(s) == [i \in 1..Len(s) |-> TitleWord(s[i])]

\* str.replace('.', ' ')
DotsToBlanks(s) == [i \in 1..Len(s) |-> IF s[i] = "." THEN Blank ELSE s[i]]

\* str.split('@')[0]: the text before the first '@', all of it when there is none
RECURSIVE LocalPart(_)
LocalPart(s) ==
    IF s = << >> \/ Head(s) = "@" THEN << >> ELSE <<Head(s)>> \o LocalPart(Tail(s))

\* "\n".join(parts)
RECURSIVE JoinLines(_)
JoinLines(parts) ==
    IF parts = << >> THEN << >>
    ELSE IF Len(parts) = 1 THEN parts[1]
    ELSE parts[1] \o <<"\n">> \o JoinLines(Tail(parts))

Greeting(recipient) ==
    LET name == Title(DotsToBlanks(LocalPart(recipient)))
    IN  IF name = << >> THEN <<"Dear Colleague,">> ELSE <<"Dear ">> \o name \o <<",">>

ComposeArgs ==
    [recipient_email : {None, Some(<<"john", ".", "doe", "@", "example.com">>),
                        Some(<<"@", "example.com">>)},
     subject : {<<"Findings">>},
     context : {<< >>, <<"Here is the report.">>},
     research_summary : {None, Some(<<"Three sources agree.">>)},
     tone : {"professional", "friendly"}]

EmailBody(a) ==
    JoinLines(
        <<Greeting(a.recipient_email[1]), << >> >>
        \o (IF a.context # << >>
            THEN << <<"I hope this email finds you well. ">> \o a.context, << >> >>
            ELSE << >>)
        \o (IF a.research_summary # None /\ a.research_summary[1] # << >>
            THEN << <<"Based on recent research findings:">>, << >>,
                    a.research_summary[1], << >> >>
            ELSE << >>)
        \o << <<"Please let me know if you have any questions or would like to discuss this further.">>,
              << >>, <<"Best regards,">>, <<"Research Assistant">> >>)

ComposeFailure(e) ==
    [success |-> FALSE,
     error |-> e.msg,
     message |-> <<"Failed to compose email content:">> \o e.msg]

\* Mutant: the closing names the session the bundle carries.
ComposeEmailContentSigned(ctx, a) ==
    IF a.recipient_email = None
    THEN ComposeFailure([cls |-> "Exception",
                         msg |-> <<"'NoneType' object has no attribute 'split'">>])
    ELSE [success |-> TRUE,
          email_content |-> [to |-> <<a.recipient_email[1]>>,
                             subject |-> a.subject,
                             body |-> EmailBody(a) \o <<"\n", ctx.deps.gmail_credentials_path>>,
                             tone |-> a.tone],
          message |-> <<"Email content composed successfully">>]

\* The whole body of compose_email_content: None has no split(), and the
\* AttributeError is caught at line 233.  ctx is a parameter the body never
\* reads.
ComposeEmailContent(ctx, a) ==
    IF a.recipient_email = None
    THEN ComposeFailure([cls |-> "Exception",
                         msg |-> <<"'NoneType' object has no attribute 'split'">>])
    ELSE [success |-> TRUE,
          email_content |-> [to |-> <<a.recipient_email[1]>>,
                             subject |-> a.subject,
                             body |-> EmailBody(a),
                             tone |-> a.tone],
          message |-> <<"Email content composed successfully">>]

\* ---------------------------------------------------------------- the CLI
DefaultCredentialsPath == "credentials/gmail_credentials.json"
DefaultTokenPath       == "credentials/gmail_token.json"

\* The environment and the command line the process starts with.
Envs ==
    [BRAVE_API_KEY : {None, Some(""), Some("BSA-key")},
     GMAIL_CREDENTIALS_PATH : {None, Some("custom/credentials.json")},
     GMAIL_TOKEN_PATH : {None}]

ArgQueries == {None, Some(<< >>), Some(<<"search">>), Some(<<"quit">>)}

\* os.getenv(name, default)
GetEnv(v, default) == IF v = None THEN default ELSE v[1]

\* setup_dependencies, past the check of the key
BuildDeps(env) ==
    [brave_api_key |-> env.BRAVE_API_KEY[1],
     gmail_credentials_path |-> GetEnv(env.GMAIL_CREDENTIALS_PATH, DefaultCredentialsPath),
     gmail_token_path |-> GetEnv(env.GMAIL_TOKEN_PATH, DefaultTokenPath),
     session_id |-> "cli_session"]

\* `not brave_api_key`
KeyMissing(env) == IF env.BRAVE_API_KEY = None THEN TRUE ELSE env.BRAVE_API_KEY[1] = ""

\* One print() call on stdout.
Text(t) == [kind |-> "text", text |-> t]

Rule == Text(<<"============">>)

\* json.dumps of the summary of automated_mode
JsonSummary(result) ==
    [kind |-> "json",
     success |-> result.success,
     has_output |-> result.output # None,
     error |-> result.error]

\* What research_agent.run returns: result.output is a str.
AgentOutputs == {<<"answer">>}

\* run_query, lines 63-65
StartPrints(q, verbose) ==
    IF verbose THEN <<Text(<<"Processing query:">> \o q), Rule>> ELSE << >>

\* run_query, lines 69-74
OkPrints(out, verbose) ==
    IF verbose
    THEN <<Text(<<"Agent Response:">>), Text(out), Rule, Text(<<"Usage:", "usage">>), Rule>>
    ELSE << >>

\* run_query, lines 86-87
ErrorPrints(e, verbose) ==
    IF verbose THEN <<Text(<<"Error:">> \o e.msg)>> ELSE << >>

\* Mutant: the exit code ignores the result.
ExitCodeZero(result) == 0

\* sys.exit(0 if result["success"] else 1)
ExitCode(result) == IF result.success THEN 0 ELSE 1

Banner ==
    <<Rule, Text(<<"PydanticAI Research Agent - Interactive Mode">>), Rule,
      Text(<<"Commands:">>),
      Text(<<"  - Type your research query and press Enter">>),
      Text(<<"  - Type 'quit' or 'exit' to exit">>),
      Text(<<"  - Type 'help' for available commands">>), Rule>>

HelpPrints ==
    <<Text(<<"Available Commands:">>),
      Text(<<"  - search [topic]: Search for information">>),
      Text(<<"  - quit/exit: Exit the application">>), Text(<< >>)>>

\* Mutant: the comparison forgets lower().
IsQuitCaseSensitive(q) == q \in {<<"quit">>, <<"exit">>, <<"q">>}

\* query.lower() in ['quit', 'exit', 'q']
IsQuit(q) == Lower(q) \in {<<"quit">>, <<"exit">>, <<"q">>}

\* Mutant: the comparison with 'help' forgets lower().
IsHelpCaseSensitive(q) == q = <<"help">>

\* query.lower() == 'help'
IsHelp(q) == Lower(q) = <<"help">>

\* What input() can return.
Lines ==
    { << >>, <<Blank>>, <<"quit">>, <<Blank, "EXIT", Blank>>, <<"Q">>,
      <<"Help", Blank>>, <<"search">>, <<"quit", "search">> }

\* What input() can raise: EOFError is an Exception, Ctrl-C is not.
InputExcs ==
    [cls : {"Exception", "KeyboardInterrupt"}, msg : {<<"EOF when reading a line">>}]

\* What research_agent.run can raise on its own account (model call, network).
AgentExcs == [cls : {"Exception", "KeyboardInterrupt"}, msg : {<< >>, <<"timeout">>}]

\* ------------------------------------------------------------------- state
VARIABLES
    cliPc,       \* "main", "prompt" (in input()), "run" (awaiting research_agent.run), "exited"
    mode,        \* "none", "automated", "interactive"
    quiet,       \* the quiet parameter of automated_mode
    deps,        \* the bundle setup_dependencies built, or None
    query,       \* the query of the last run_query call, or None
    inputsRead,  \* input() calls made so far
    stdout,      \* the print() calls made so far
    exitStatus,  \* the argument of sys.exit, or None
    ending,      \* "none", "sys.exit", "break" (loop left), "uncaught" (exception left main)
    event,       \* the input or completion the last CLI step handled
    runResult,   \* what the last run_query call returned, or None
    runDeps,     \* the bundle the last research_agent.run call received, or None
    agentRuns,   \* research_agent.run calls made so far
    toolCalls,   \* tool calls made in the current agent run
    tool,        \* the tool executing, or "none"
    toolPc,      \* "idle", "auth" (awaiting authenticate_gmail_service), "submit" (awaiting create_draft)
    toolArgs,    \* the arguments of the executing create_gmail_draft call, or None
    composeArgs, \* the arguments of the compose_email_content call just made, or None
    submitResult,\* the dictionary create_draft returned to the last tool call, or None
    outcome,     \* the dictionary the tool call just made returned, or None
    lastTool,    \* the tool that returned `outcome` or let `escaped` through
    authCalls,   \* authenticate_gmail_service calls of the current or last tool execution
    submitCalls, \* create_draft calls of the current or last tool execution
    toolFailed,  \* some tool call of the current or last run returned success = False
    raised,      \* the exception the Gmail call of the last tool call raised, or None
    escaped      \* the exception that left a tool uncaught in this run, or None

cliVars  == <<cliPc, mode, quiet, deps, query, inputsRead, stdout, exitStatus, ending,
              event, runResult, runDeps, agentRuns>>
toolVars == <<toolCalls, tool, toolPc, toolArgs, composeArgs, submitResult, outcome,
              lastTool, authCalls, submitCalls, toolFailed, raised, escaped>>
vars     == <<cliPc, mode, quiet, deps, query, inputsRead, stdout, exitStatus, ending,
              event, runResult, runDeps, agentRuns, toolCalls, tool, toolPc, toolArgs,
              composeArgs, submitResult, outcome, lastTool, authCalls, submitCalls, toolFailed, raised, escaped>>

\* Mutant: a failed tool call makes run_query report failure.
RunQueryOkUnlessToolFailed(out) ==
    [success |-> ~toolFailed, output |-> Some(out), usage |-> Some("usage"), error |-> None]

\* run_query, lines 76-81
RunQueryOk(out) ==
    [success |-> TRUE, output |-> Some(out), usage |-> Some("usage"), error |-> None]

\* run_query, lines 89-94
RunQueryError(e) ==
    [success |-> FALSE, output |-> None, usage |-> None, error |-> Some(e.msg)]

Event(kind, line, cls) == [kind |-> kind, line |-> line, cls |-> cls]

Init ==
    /\ cliPc = "main"
    /\ mode = "none"
    /\ quiet = FALSE
    /\ deps = None
    /\ query = None
    /\ inputsRead = 0
    /\ stdout = << >>
    /\ exitStatus = None
    /\ ending = "none"
    /\ event = Event("start", None, "none")
    /\ runResult = None
    /\ runDeps = None
    /\ agentRuns = 0
    /\ toolCalls = 0
    /\ tool = "none"
    /\ toolPc = "idle"
    /\ toolArgs = None
    /\ composeArgs = None
    /\ submitResult = None
    /\ outcome = None
    /\ lastTool = "none"
    /\ authCalls = 0
    /\ submitCalls = 0
    /\ toolFailed = FALSE
    /\ raised = None
    /\ escaped = None

\* run_query up to its await: research_agent.run(query, deps=deps) starts.
StartRun(q, d, verbose, printed) ==
    /\ cliPc' = "run"
    /\ query' = Some(q)
    /\ runDeps' = d
    /\ agentRuns' = agentRuns + 1
    /\ stdout' = printed \o StartPrints(q, verbose)
    /\ runResult' = None
    /\ toolCalls' = 0
    /\ tool' = "none"
    /\ toolPc' = "idle"
    /\ toolArgs' = None
    /\ composeArgs' = None
    /\ submitResult' = None
    /\ outcome' = None
    /\ lastTool' = "none"
    /\ authCalls' = 0
    /\ submitCalls' = 0
    /\ toolFailed' = FALSE
    /\ raised' = None
    /\ escaped' = None

\* ------------------------------------------------------------------- main()
\* setup_dependencies finds no key and calls sys.exit(1); SystemExit is not an
\* Exception, so main's handler lets it through.
MainNoKey(env, args) ==
    /\ cliPc = "main"
    /\ KeyMissing(env)
    /\ cliPc' = "exited"
    /\ exitStatus' = Some(1)
    /\ ending' = "sys.exit"
    /\ event' = Event("main", None, "none")
    /\ UNCHANGED <<mode, quiet, deps, query, inputsRead, stdout, runResult, runDeps,
                   agentRuns>>
    /\ UNCHANGED toolVars

\* args.query is truthy: automated_mode, which enters run_query at once.
MainAutomated(env, args) ==
    /\ cliPc = "main"
    /\ ~KeyMissing(env)
    /\ IF args.query = None THEN FALSE ELSE args.query[1] # << >>
    /\ deps' = Some(BuildDeps(env))
    /\ mode' = "automated"
    /\ quiet' = args.quiet
    /\ event' = Event("main", None, "none")
    /\ StartRun(args.query[1], Some(BuildDeps(env)), ~args.quiet, stdout)
    /\ UNCHANGED <<inputsRead, exitStatus, ending>>

\* No query: interactive_mode prints its banner and reaches input().
MainInteractive(env, args) ==
    /\ cliPc = "main"
    /\ ~KeyMissing(env)
    /\ IF args.query = None THEN TRUE ELSE args.query[1] = << >>
    /\ deps' = Some(BuildDeps(env))
    /\ mode' = "interactive"
    /\ stdout' = stdout \o Banner
    /\ cliPc' = "prompt"
    /\ event' = Event("main", None, "none")
    /\ UNCHANGED <<quiet, query, inputsRead, exitStatus, ending, runResult, runDeps,
                   agentRuns>>
    /\ UNCHANGED toolVars

\* ------------------------------------------------------- interactive_mode()
Prompt == Text(<<"Your query:">>)

\* One pass of the loop body for a line input() returned (lines 111-128).
ReplLine(l) ==
    /\ cliPc = "prompt"
    /\ inputsRead < MaxInputs
    /\ inputsRead' = inputsRead + 1
    /\ event' = Event("line", Some(l), "none")
    /\ UNCHANGED <<mode, quiet, deps, exitStatus>>
    /\ LET q == Strip(l)
       IN  IF q = << >>
           THEN /\ cliPc' = "prompt"
                /\ stdout' = Append(stdout, Prompt)
                /\ UNCHANGED <<query, ending, runResult, runDeps, agentRuns>>
                /\ UNCHANGED toolVars
           ELSE IF IsQuit(q)
           THEN /\ cliPc' = "exited"
                /\ ending' = "break"
                /\ stdout' = stdout \o <<Prompt, Text(<<"Goodbye!">>)>>
                /\ UNCHANGED <<query, runResult, runDeps, agentRuns>>
                /\ UNCHANGED toolVars
           ELSE IF IsHelp(q)
           THEN /\ cliPc' = "prompt"
                /\ stdout' = stdout \o <<Prompt>> \o HelpPrints
                /\ UNCHANGED <<query, ending, runResult, runDeps, agentRuns>>
                /\ UNCHANGED toolVars
           ELSE /\ StartRun(q, deps, TRUE, Append(stdout, Prompt))
                /\ UNCHANGED ending

\* input() raises (lines 130-135).
ReplInputRaises(e) ==
    /\ cliPc = "prompt"
    /\ inputsRead < MaxInputs
    /\ inputsRead' = inputsRead + 1
    /\ event' = Event("input_raised", None, e.cls)
    /\ IF e.cls = "KeyboardInterrupt"
       THEN /\ cliPc' = "exited"
            /\ ending' = "break"
            /\ stdout' = stdout \o <<Prompt, Text(<<"Interrupted by user. Goodbye!">>)>>
       ELSE /\ cliPc' = "prompt"
            /\ ending' = ending
            /\ stdout' = stdout \o <<Prompt, Text(<<"Unexpected error:">> \o e.msg)>>
    /\ UNCHANGED <<mode, quiet, deps, query, exitStatus, runResult, runDeps, agentRuns>>
    /\ UNCHANGED toolVars

\* ------------------------------------------- the end of research_agent.run
Verbose == mode = "interactive" \/ ~quiet

\* run_query returns `result`, having printed `prints`; then its caller goes
\* on: automated_mode prints the summary and exits, the loop prompts again.
RunQueryDone(result, prints) ==
    /\ runResult' = Some(result)
    /\ IF mode = "automated"
       THEN /\ stdout' = stdout \o prints
                         \o (IF quiet THEN <<JsonSummary(result)>> ELSE << >>)
            /\ exitStatus' = Some(ExitCode(result))
            /\ ending' = "sys.exit"
            /\ cliPc' = "exited"
       ELSE /\ stdout' = stdout \o prints
            /\ cliPc' = "prompt"
            /\ UNCHANGED <<exitStatus, ending>>
    /\ UNCHANGED <<mode, quiet, deps, query, inputsRead, runDeps, agentRuns>>

\* A KeyboardInterrupt leaves research_agent.run: run_query does not catch
\* it; the loop does (line 130), automated_mode and main do not.
RunQueryInterrupted ==
    /\ cliPc' = "exited"
    /\ IF mode = "automated"
       THEN /\ ending' = "uncaught"
            /\ UNCHANGED stdout
       ELSE /\ ending' = "break"
            /\ stdout' = Append(stdout, Text(<<"Interrupted by user. Goodbye!">>))
    /\ UNCHANGED <<mode, quiet, deps, query, inputsRead, exitStatus, runResult, runDeps,
                   agentRuns>>

\* What leaves research_agent.run when it raises e.
RunRaised(e) ==
    /\ event' = Event("run_raised", None, e.cls)
    /\ IF IsException(e.cls)
       THEN RunQueryDone(RunQueryError(e), ErrorPrints(e, Verbose))
       ELSE RunQueryInterrupted

\* research_agent.run is over: the runtime's record of its tool calls goes
\* with it.  What stays is whether a tool call of the run failed.
RunStateDropped ==
    /\ toolCalls' = 0
    /\ outcome' = None
    /\ lastTool' = "none"
    /\ authCalls' = 0
    /\ submitCalls' = 0
    /\ raised' = None
    /\ composeArgs' = None
    /\ submitResult' = None
    /\ UNCHANGED <<tool, toolPc, toolArgs, toolFailed, escaped>>

\* The runtime returns its final answer.
AgentReturns(out) ==
    /\ cliPc = "run"
    /\ tool = "none"
    /\ event' = Event("run_returned", None, "none")
    /\ RunQueryDone(RunQueryOk(out), OkPrints(out, Verbose))
    /\ RunStateDropped

\* The runtime itself fails.
AgentRaises(e) ==
    /\ cliPc = "run"
    /\ tool = "none"
    /\ RunRaised(e)
    /\ RunStateDropped

\* ---------------------------------------------- the tools, inside one run
\* The runtime calls a tool only between tool calls, one at a time.
CanCallTool == cliPc = "run" /\ tool = "none" /\ toolCalls < MaxToolCalls

\* A tool returns the dictionary o to the runtime.
ToolReturns(o, exc) ==
    /\ outcome' = Some(o)
    /\ raised' = exc
    /\ lastTool' = tool
    /\ tool' = "none"
    /\ toolPc' = "idle"
    /\ toolArgs' = None
    /\ toolFailed' = (toolFailed \/ ~o.success)
    /\ UNCHANGED <<toolCalls, composeArgs, escaped>>
    /\ UNCHANGED cliVars

\* No except clause of the tool matches e: it leaves the tool, and with it
\* research_agent.run.
ToolEscapes(e) ==
    /\ escaped' = Some(e)
    /\ raised' = Some(e)
    /\ lastTool' = tool
    /\ tool' = "none"
    /\ toolPc' = "idle"
    /\ toolArgs' = None
    /\ toolCalls' = 0
    /\ outcome' = None
    /\ UNCHANGED <<composeArgs, toolFailed>>
    /\ RunRaised(e)

\* authenticate_gmail up to its await (lines 59-64)
CallAuthenticate ==
    /\ CanCallTool
    /\ tool' = "authenticate_gmail"
    /\ toolPc' = "auth"
    /\ toolCalls' = toolCalls + 1
    /\ authCalls' = 1
    /\ submitCalls' = 0
    /\ toolArgs' = None
    /\ composeArgs' = None
    /\ submitResult' = None
    /\ outcome' = None
    /\ lastTool' = "none"
    /\ raised' = None
    /\ UNCHANGED <<toolFailed, escaped>>
    /\ UNCHANGED cliVars

\* create_gmail_draft up to its first await (lines 119-126)
CallCreateDraft(a) ==
    /\ CanCallTool
    /\ tool' = "create_gmail_draft"
    /\ toolPc' = "auth"
    /\ toolCalls' = toolCalls + 1
    /\ authCalls' = 1
    /\ submitCalls' = 0
    /\ toolArgs' = Some(a)
    /\ composeArgs' = None
    /\ submitResult' = None
    /\ outcome' = None
    /\ lastTool' = "none"
    /\ raised' = None
    /\ UNCHANGED <<toolFailed, escaped>>
    /\ UNCHANGED cliVars

\* The RunContext a tool call receives: the bundle of the run and the
\* runtime's record of the run so far, here the number of earlier tool calls.
RunContext(d, n) == [deps |-> d, messages |-> n]

\* compose_email_content has no await: one step
CallCompose(a) ==
    /\ CanCallTool
    /\ toolCalls' = toolCalls + 1
    /\ composeArgs' = Some(a)
    /\ submitResult' = None
    /\ outcome' = Some(ComposeEmailContent(RunContext(runDeps[1], toolCalls), a))
    /\ lastTool' = "compose_email_content"
    /\ toolFailed' = (toolFailed
                       \/ ~ComposeEmailContent(RunContext(runDeps[1], toolCalls), a).success)
    /\ authCalls' = 0
    /\ submitCalls' = 0
    /\ raised' = None
    /\ UNCHANGED <<tool, toolPc, toolArgs, escaped>>
    /\ UNCHANGED cliVars

\* authenticate_gmail_service returns a service: authenticate_gmail reports
\* it (lines 65-69), create_gmail_draft goes on to create_draft (lines 136-144).
AuthServiceReturns ==
    /\ toolPc = "auth"
    /\ UNCHANGED submitResult
    /\ IF tool = "authenticate_gmail"
       THEN /\ ToolReturns(AuthSuccess, None)
            /\ UNCHANGED <<authCalls, submitCalls>>
       ELSE /\ toolPc' = "submit"
            /\ submitCalls' = submitCalls + 1
            /\ UNCHANGED <<toolCalls, tool, toolArgs, composeArgs, outcome, lastTool,
                           authCalls, toolFailed, raised, escaped>>
            /\ UNCHANGED cliVars

\* Mutant: create_gmail_draft notes the authentication failure and goes on to
\* the submission.
AuthServiceRaisesThenSubmits(e) ==
    /\ toolPc = "auth"
    /\ UNCHANGED <<authCalls, submitResult>>
    /\ IF ~IsException(e.cls)
       THEN /\ UNCHANGED submitCalls
            /\ ToolEscapes(e)
       ELSE IF tool = "authenticate_gmail"
       THEN /\ UNCHANGED submitCalls
            /\ ToolReturns(AuthFailure(e), Some(e))
       ELSE /\ toolPc' = "submit"
            /\ submitCalls' = submitCalls + 1
            /\ raised' = Some(e)
            /\ UNCHANGED <<toolCalls, tool, toolArgs, composeArgs, outcome, lastTool,
                           toolFailed, escaped>>
            /\ UNCHANGED cliVars

\* authenticate_gmail_service raises e (lines 70-106 and 127-133).
AuthServiceRaises(e) ==
    /\ toolPc = "auth"
    /\ UNCHANGED <<authCalls, submitCalls, submitResult>>
    /\ IF IsException(e.cls)
       THEN ToolReturns(IF tool = "authenticate_gmail" THEN AuthFailure(e)
                        ELSE DraftAuthFailure(e), Some(e))
       ELSE ToolEscapes(e)

\* Mutant: a rejected submission sends the tool back to authenticate again.
SubmitReturnsReauth(result) ==
    /\ toolPc = "submit"
    /\ submitResult' = Some(result)
    /\ IF DraftOutcome(result).success
       THEN /\ UNCHANGED <<authCalls, submitCalls>>
            /\ ToolReturns(DraftOutcome(result), None)
       ELSE /\ toolPc' = "auth"
            /\ authCalls' = authCalls + 1
            /\ UNCHANGED <<toolCalls, tool, toolArgs, composeArgs, outcome, lastTool,
                           submitCalls, toolFailed, raised, escaped>>
            /\ UNCHANGED cliVars

\* create_draft returns (lines 146-160).
SubmitReturns(result) ==
    /\ toolPc = "submit"
    /\ submitResult' = Some(result)
    /\ UNCHANGED <<authCalls, submitCalls>>
    /\ ToolReturns(DraftOutcome(result), None)

\* create_draft raises e (lines 162-168).
SubmitRaises(e) ==
    /\ toolPc = "submit"
    /\ UNCHANGED <<authCalls, submitCalls, submitResult>>
    /\ IF IsException(e.cls) THEN ToolReturns(DraftUnexpected(e), Some(e)) ELSE ToolEscapes(e)

\* ------------------------------------------------------------ specification
Args == [query : ArgQueries, quiet : BOOLEAN]

Next ==
    \/ \E env \in Envs, args \in Args : MainNoKey(env, args)
    \/ \E env \in Envs, args \in Args : MainAutomated(env, args)
    \/ \E env \in Envs, args \in Args : MainInteractive(env, args)
    \/ \E l \in Lines : ReplLine(l)
    \/ \E e \in InputExcs : ReplInputRaises(e)
    \/ CallAuthenticate
    \/ \E a \in DraftArgs : CallCreateDraft(a)
    \/ \E a \in ComposeArgs : CallCompose(a)
    \/ AuthServiceReturns
    \/ \E e \in Excs : AuthServiceRaises(e)
    \/ \E r \in DraftResults : SubmitReturns(r)
    \/ \E e \in Excs : SubmitRaises(e)
    \/ \E out \in AgentOutputs : AgentReturns(out)
    \/ \E e \in AgentExcs : AgentRaises(e)

Spec == Init /\ [][Next]_vars

\* ================================================================== claims
HasField(o, f) == f \in DOMAIN o

\* A tool call has just ended: with a dictionary, or with an exception.
ToolEnded == lastTool # "none"

GmailTools == {"authenticate_gmail", "create_gmail_draft"}

\* -------------------------------------------------------------------- C1
\* C1 as stated: no exception ever leaves a tool of the email agent, whatever
\* the underlying authentication or draft-submission call raises.
C1_NoFaultEscapes == escaped = None

\* C1 amended: every tool call ends with a dictionary that carries success and
\* message, unless the underlying Gmail call raised a KeyboardInterrupt, the
\* one class here that `except Exception` does not match; only that class
\* ever leaves a tool.
C1_ExceptionsBecomeOutcomes ==
    /\ escaped # None => /\ escaped[1].cls = "KeyboardInterrupt"
                         /\ lastTool \in GmailTools
                         /\ raised = escaped
    /\ (ToolEnded /\ escaped = None) =>
           /\ outcome # None
           /\ HasField(outcome[1], "success")
           /\ HasField(outcome[1], "message")
    /\ (ToolEnded /\ raised # None /\ raised[1].cls # "KeyboardInterrupt") =>
           /\ escaped = None
           /\ outcome # None
           /\ ~outcome[1].success

\* The draft submission raised a FileNotFoundError and the tool returned a
\* failure dictionary.
C1_Witness ==
    /\ lastTool = "create_gmail_draft"
    /\ submitCalls = 1
    /\ raised # None
    /\ raised[1].cls = "FileNotFoundError"
    /\ outcome # None
    /\ ~outcome[1].success

\* -------------------------------------------------------------------- C2
\* C2: every dictionary a tool returns satisfies the outcome invariant: with
\* success there is no error field; without success the message is not
\* empty, and when recoverable is true the message names the setup command.
C2_OutcomeInvariant ==
    outcome # None =>
        LET o == outcome[1]
        IN  /\ o.success => ~HasField(o, "error")
            /\ ~o.success =>
                   /\ HasField(o, "message")
                   /\ o.message # << >>
                   /\ (IF HasField(o, "recoverable") THEN o.recoverable ELSE FALSE)
                          => Contains(o.message, SetupCommand)

\* create_gmail_draft returned a recoverable failure.
C2_Witness ==
    /\ lastTool = "create_gmail_draft"
    /\ outcome # None
    /\ ~outcome[1].success
    /\ HasField(outcome[1], "recoverable")
    /\ outcome[1].recoverable

\* -------------------------------------------------------------------- C3
\* C3: when authenticate_gmail_service raises FileNotFoundError,
\* authenticate_gmail does not raise: it returns success = False,
\* recoverable = True and the setup command, in setup_command and in message.
C3_MissingCredentialsFile ==
    (lastTool = "authenticate_gmail" /\ raised # None
         /\ raised[1].cls = "FileNotFoundError") =>
        /\ escaped = None
        /\ outcome # None
        /\ ~outcome[1].success
        /\ HasField(outcome[1], "recoverable")
        /\ outcome[1].recoverable
        /\ HasField(outcome[1], "setup_command")
        /\ outcome[1].setup_command = SetupCommand
        /\ Contains(outcome[1].message, SetupCommand)

\* The FileNotFoundError whose text matches none of the keywords.
C3_Witness ==
    /\ lastTool = "authenticate_gmail"
    /\ raised = Some([cls |-> "FileNotFoundError", msg |-> <<"timeout">>])
    /\ outcome # None

\* -------------------------------------------------------------------- C4
\* The failure class of an authentication exception.
AuthClass(e) ==
    IF e.cls = "FileNotFoundError" THEN "credentials-file-missing"
    ELSE IF \E i \in 1..Len(e.msg) : e.msg[i] \in {"refresh", "Refresh"}
    THEN "token-refresh-failed"
    ELSE IF \E i \in 1..Len(e.msg) : e.msg[i] \in {"credentials", "Credentials"}
    THEN "credentials-invalid"
    ELSE "unknown"

AuthFailed ==
    /\ lastTool = "authenticate_gmail"
    /\ outcome # None
    /\ ~outcome[1].success

\* C4 as stated: the message of every failure outcome of authenticate_gmail,
\* the unknown class included, names the setup command.
C4_EveryFailureNamesCommand ==
    AuthFailed => Contains(outcome[1].message, SetupCommand)

\* C4 amended: in the classes credentials-file-missing, token-refresh-failed
\* and credentials-invalid the message names the setup command and the
\* outcome carries it in setup_command; in the class unknown the message is
\* "Gmail authentication failed:" followed by str(e), and there is no
\* setup_command.
C4_KnownClassesNameCommand ==
    AuthFailed =>
        IF AuthClass(raised[1]) = "unknown"
        THEN /\ outcome[1].message = <<"Gmail authentication failed:">> \o raised[1].msg
             /\ ~HasField(outcome[1], "setup_command")
             /\ ~outcome[1].recoverable
        ELSE /\ Contains(outcome[1].message, SetupCommand)
             /\ HasField(outcome[1], "setup_command")
             /\ outcome[1].setup_command = SetupCommand
             /\ outcome[1].recoverable

\* A token-refresh failure was reported.
C4_Witness ==
    /\ AuthFailed
    /\ AuthClass(raised[1]) = "token-refresh-failed"

\* -------------------------------------------------------------------- C5
\* C5: a create_gmail_draft call whose arguments break the constraints of
\* EmailDraft (an empty recipients list) reaches neither
\* authenticate_gmail_service nor create_draft.
C5_EmptyRecipientsRejected ==
    (tool = "create_gmail_draft" /\ ~EmailDraftValid(toolArgs[1])) =>
        (authCalls = 0 /\ submitCalls = 0)

\* -------------------------------------------------------------------- C6
DraftRunning == tool = "create_gmail_draft"
DraftEnded   == lastTool = "create_gmail_draft"

OneShotEnded == mode = "automated" /\ cliPc = "exited"

C8_QuietFailureSummary ==
    (OneShotEnded /\ quiet /\ event.kind = "run_raised" /\ event.cls = "Exception") =>
        /\ Len(stdout) = 1
        /\ stdout[1].kind = "json"
        /\ stdout[1].success = FALSE
        /\ stdout[1].has_output = FALSE
        /\ stdout[1].error # None
        /\ stdout[1].error[1] # << >>
        /\ exitStatus = Some(1)

ReplRunning == mode = "interactive" /\ cliPc # "exited"

\* C10: a step of the interactive loop ends the loop exactly when it read a
\* line that is "quit", "exit" or "q" once trimmed and lower-cased, or when a
\* KeyboardInterrupt arrived (in input() or during the query); after every
\* other line or event (help, an empty line, a failed query, another
\* exception from input()) the loop is back in input() or is running the
\* query it read.
C10_ReplTermination ==
    [][ReplRunning =>
           /\ (cliPc' = "exited") <=>
                  \/ /\ event'.kind = "line"
                     /\ \E w \in {"quit", "exit", "q"} :
                            Lower(Strip(event'.line[1])) = <<w>>
                  \/ event'.cls = "KeyboardInterrupt"
           /\ cliPc' # "exited" =>
                  IF cliPc = "prompt" /\ event'.kind = "line"
                        /\ Strip(event'.line[1]) # << >>
                        /\ Lower(Strip(event'.line[1])) # <<"help">>
                  THEN cliPc' = "run"
                  ELSE cliPc' = cliPc \/ cliPc' = "prompt"]_vars

\* The query failed and the loop is in input() again.
C10_Witness ==
    /\ mode = "interactive"
    /\ cliPc = "prompt"
    /\ event.kind = "run_raised"
    /\ runResult # None
    /\ ~runResult[1].success


\* -------------------------------------------------------------------- C11
\* Every RunContext a tool call of this program can receive: a bundle
\* setup_dependencies can build, and any number of earlier tool calls.
ComposeContexts ==
    {RunContext(BuildDeps(env), n) : env \in {v \in Envs : ~KeyMissing(v)},
                                     n \in 0..MaxToolCalls}

\* C11: compose_email_content is deterministic.  The outcome a compose call
\* returned, body included, is the outcome the same arguments (recipient,
\* subject, context, summary, tone) give under every other dependency bundle
\* and after any number of earlier tool calls.
C11_ComposeDeterministic ==
    (lastTool = "compose_email_content" /\ outcome # None) =>
        /\ composeArgs # None
        /\ \A c \in ComposeContexts :
               /\ ComposeEmailContent(c, composeArgs[1]) = outcome[1]
               /\ outcome[1].success =>
                      ComposeEmailContent(c, composeArgs[1]).email_content.body
                          = outcome[1].email_content.body

\* A compose call succeeded as the second tool call of a run, after a tool
\* call that failed, under a bundle with a non-default credentials path.
C11_Witness ==
    /\ lastTool = "compose_email_content"
    /\ outcome # None
    /\ outcome[1].success
    /\ toolCalls = 2
    /\ toolFailed
    /\ runDeps # None
    /\ runDeps[1].gmail_credentials_path # DefaultCredentialsPath
    /\ composeArgs[1].research_summary # None


\* -------------------------------------------------------------------- C12
\* The failure class a failure outcome of authenticate_gmail reports, read
\* off the fixed text its error starts with.
OutcomeClass(o) ==
    IF o.error = <<"Gmail OAuth2 not configured">> THEN "credentials-file-missing"
    ELSE IF o.error = << >> THEN "unknown"
    ELSE IF o.error[1] = "Token refresh failed:" THEN "token-refresh-failed"
    ELSE IF o.error[1] = "Credentials error:" THEN "credentials-invalid"
    ELSE "unknown"

AuthRaised == lastTool = "authenticate_gmail" /\ raised # None

\* C12 as stated: every exception the authentication call raises is reported
\* as a failure outcome of exactly one class, by the precedence
\* FileNotFoundError, then "refresh", then "credentials", then unknown;
\* token-refresh-failed and credentials-invalid are recoverable, unknown is
\* not.
C12_EveryExceptionClassified ==
    AuthRaised =>
        IF outcome = None THEN FALSE
        ELSE /\ ~outcome[1].success
             /\ OutcomeClass(outcome[1]) = AuthClass(raised[1])
             /\ AuthClass(raised[1]) \in {"token-refresh-failed", "credentials-invalid"}
                    => outcome[1].recoverable
             /\ AuthClass(raised[1]) = "unknown" => ~outcome[1].recoverable

\* C12 amended: the classification covers the exceptions `except Exception`
\* matches, with the stated precedence and recoverable flags; a
\* KeyboardInterrupt is not classified, it leaves the tool without an outcome.
C12_ClassificationPrecedence ==
    AuthRaised =>
        IF raised[1].cls = "KeyboardInterrupt"
        THEN outcome = None /\ escaped = raised
        ELSE /\ outcome # None
             /\ ~outcome[1].success
             /\ OutcomeClass(outcome[1]) = AuthClass(raised[1])
             /\ AuthClass(raised[1]) \in {"token-refresh-failed", "credentials-invalid"}
                    => outcome[1].recoverable
             /\ AuthClass(raised[1]) = "unknown" => ~outcome[1].recoverable

\* An exception whose message holds both "credentials" and "refresh" was
\* reported as a recoverable token-refresh failure.
C12_Witness ==
    /\ AuthRaised
    /\ raised[1].cls = "Exception"
    /\ raised[1].msg = <<"credentials", "refresh">>
    /\ outcome # None
    /\ OutcomeClass(outcome[1]) = "token-refresh-failed"
    /\ outcome[1].recoverable


\* -------------------------------------------------------------------- C13
\* The step in which the authentication call of a create_gmail_draft
\* execution raises.
DraftAuthRaises == DraftRunning /\ toolPc = "auth" /\ raised' # None

\* At most one submission per execution, made by the step in which the
\* authentication call of that execution returns.
DraftSubmitsOnceAfterAuth ==
    /\ (DraftRunning' \/ DraftEnded') => submitCalls' <= 1
    /\ submitCalls' > submitCalls =>
           /\ DraftRunning
           /\ DraftRunning'
           /\ toolPc = "auth"
           /\ toolPc' = "submit"
           /\ authCalls = 1
           /\ submitCalls = 0
           /\ raised' = None

\* A success outcome is returned only for a submission that reported success,
\* and carries that submission's draft_id and message_id.
DraftSuccessOnlyFromSubmission ==
    (DraftEnded' /\ outcome' # None) =>
        (outcome'[1].success =>
            /\ submitCalls' = 1
            /\ submitResult' # None
            /\ submitResult'[1].success
            /\ HasField(outcome'[1], "draft_id")
            /\ HasField(outcome'[1], "message_id")
            /\ outcome'[1].draft_id = submitResult'[1].draft_id
            /\ outcome'[1].message_id = submitResult'[1].message_id)

\* C13 as stated: in every execution of create_gmail_draft the submission
\* happens at most once and only after the authentication call of that
\* execution returned; whenever authentication raises, no submission is made
\* and the outcome is success=false with recoverable=true; a success outcome
\* with draft_id and message_id is returned only when the submission reported
\* success.
C13_AuthRaiseAlwaysGivesOutcome ==
    [][ /\ DraftSubmitsOnceAfterAuth
        /\ DraftAuthRaises =>
               /\ submitCalls' = 0
               /\ IF outcome' = None THEN FALSE
                  ELSE ~outcome'[1].success /\ outcome'[1].recoverable
        /\ DraftSuccessOnlyFromSubmission ]_vars

\* C13 amended: as stated, except that the failure outcome with
\* recoverable=true is what an authentication exception matched by
\* `except Exception` gives; when authentication raises a KeyboardInterrupt
\* there is no submission and no outcome, the exception leaves the tool.
C13_SubmitOnlyAfterAuth ==
    [][ /\ DraftSubmitsOnceAfterAuth
        /\ DraftAuthRaises =>
               /\ submitCalls' = 0
               /\ submitResult' = None
               /\ DraftEnded'
               /\ IF raised'[1].cls = "KeyboardInterrupt"
                  THEN outcome' = None /\ escaped' = raised'
                  ELSE /\ outcome' # None
                       /\ ~outcome'[1].success
                       /\ outcome'[1].recoverable
        /\ DraftSuccessOnlyFromSubmission ]_vars

\* An execution of create_gmail_draft ended because its authentication call
\* raised: nothing was submitted and the failure is recoverable.
C13_Witness ==
    /\ DraftEnded
    /\ raised # None
    /\ raised[1].cls = "Exception"
    /\ authCalls = 1
    /\ submitCalls = 0
    /\ outcome # None
    /\ ~outcome[1].success
    /\ HasField(outcome[1], "recoverable")
    /\ outcome[1].recoverable


\* -------------------------------------------------------------------- C14
\* The step in which the interactive loop handles a line input() returned.
ReadsLine ==
    /\ mode = "interactive"
    /\ cliPc = "prompt"
    /\ inputsRead' = inputsRead + 1
    /\ event'.kind = "line"

\* Trimmed, the line is not empty, and lower-cased it is no reserved word.
Forwardable(l) ==
    /\ Strip(l) # << >>
    /\ Lower(Strip(l)) \notin {<<"quit">>, <<"exit">>, <<"q">>, <<"help">>}

\* C14: in the interactive loop a line starts exactly one agent run, with the
\* trimmed line as its query, if and only if the trimmed line is not empty
\* and its lower-cased form is none of "quit", "exit", "q", "help"; any other
\* line and any other step of the loop starts none; the bundle every agent
\* run receives is the one built at startup, which is never rebuilt.
C14_ForwardedExactlyOnce ==
    [][ /\ ReadsLine =>
               IF Forwardable(event'.line[1])
               THEN /\ agentRuns' = agentRuns + 1
                    /\ cliPc' = "run"
                    /\ query' = Some(Strip(event'.line[1]))
                    /\ runDeps' = deps
               ELSE /\ agentRuns' = agentRuns
                    /\ cliPc' # "run"
                    /\ UNCHANGED <<query, runDeps>>
        /\ (mode = "interactive" /\ ~ReadsLine) => agentRuns' = agentRuns
        /\ deps # None => deps' = deps
        /\ agentRuns' # agentRuns => (deps' # None /\ runDeps' = deps') ]_vars

\* The second line of a session, "quit search", went to the agent runtime as
\* the second run, with the bundle built at startup.
C14_Witness ==
    /\ mode = "interactive"
    /\ cliPc = "run"
    /\ agentRuns = 2
    /\ inputsRead = 2
    /\ event.kind = "line"
    /\ event.line = Some(<<"quit", "search">>)
    /\ query = Some(<<"quit", "search">>)
    /\ deps # None
    /\ runDeps = deps

====
